---- MODULE Spec2Model ----
(***************************************************************************)
(* Model of the AI Analytics dashboard builder of PowerBiMLaaS:            *)
(*   AIAnalyticsDashboard.tsx  (parent page: table select, builder popup)  *)
(*   DashboardBuilder.tsx      (schema fetch, POST /api/generate-dashboard)*)
(*   PromptToDAX.tsx           (prompt form, handleSubmit)                 *)
(*   PowerBIExport.tsx         (download handlers)                         *)
(* Strings that the code inspects are sequences: a prompt is a sequence of *)
(* characters (trim is computed), generated code is a sequence of tokens.  *)
(***************************************************************************)
EXTENDS Integers, Sequences, FiniteSets, Bags, TLC

VARIABLES
  selectedTable,  \* AIAnalyticsDashboard: useState selectedTable
  showBuilder,    \* AIAnalyticsDashboard: useState showBuilder
  columns,        \* DashboardBuilder: useState columns
  loading,        \* DashboardBuilder: useState loading
  generatedDAX,   \* DashboardBuilder: useState generatedDAX
  generatedSQL,   \* DashboardBuilder: useState generatedSQL
  error,          \* DashboardBuilder: useState error
  prompt,         \* PromptToDAX: useState prompt
  fetches,        \* bag of the dbs.raw schema queries in flight
  nextFetch,      \* number of schema queries started so far
  nextReq,        \* number of POST calls issued so far
  reqs,           \* bag of the POST /api/generate-dashboard calls in flight
  lastSettled,    \* fingerprint and outcome of the POST call settled last
  schemaSt,       \* outcome of the schema query for the table now shown
  shown,          \* the service result last applied by lines 81-83, and the
                  \* table named in the body of the request it answers
  lastSubmit,     \* outcome of handleSubmit when the step just taken called it
  lastDownload,   \* the file the step just taken handed to the browser
  vRaw,           \* validator harness: the RawGenerationOutput
  vSchema,        \* validator harness: the SchemaSnapshot
  vResult,        \* validator harness: the TranslationResult
  listening,      \* start_ai_analytics.sh: the TCP ports with a listener
  lsofInstalled,  \* start_ai_analytics.sh: lsof is on the PATH
  pc,             \* start_ai_analytics.sh: the command the script is at
  out,            \* start_ai_analytics.sh: the lines echoed so far
  exitStatus,     \* start_ai_analytics.sh: exit status, NotExited while running
  FASTAPI_PID,    \* start_ai_analytics.sh: python api/main.py &
  PROSTGLES_PID   \* start_ai_analytics.sh: ./start.sh &

vars == <<selectedTable, showBuilder, columns, loading, generatedDAX,
          generatedSQL, error, prompt, fetches, nextFetch, nextReq, reqs, lastSettled,
          schemaSt, shown, lastSubmit, lastDownload, vRaw, vSchema, vResult,
          listening, lsofInstalled, pc, out, exitStatus, FASTAPI_PID,
          PROSTGLES_PID>>

uiVars == <<selectedTable, showBuilder, columns, loading, generatedDAX,
            generatedSQL, error, prompt, fetches, nextFetch, nextReq, reqs, lastSettled,
            schemaSt, shown, lastSubmit, lastDownload>>

vVars == <<vRaw, vSchema, vResult>>

sVars == <<listening, lsofInstalled, pc, out, exitStatus, FASTAPI_PID,
           PROSTGLES_PID>>

counters == <<nextFetch, nextReq>>

NoneSettled == [fp |-> << >>, outcome |-> "none"]

(***************************************************************************)
(* Bounds.                                                                 *)
(***************************************************************************)
MaxFetches == 2
MaxRequests == 2
MaxSqlLen == 2
MaxDaxLen == 3

(***************************************************************************)
(* Values.                                                                 *)
(***************************************************************************)
Null == "null"
NoTable == ""
Tables == {"A", "B"}
EmptyStr == << >>

\* information_schema.columns rows of each table, ordered by ordinal_position
Schema(t) ==
  IF t = "A"
  THEN << [column_name |-> "c1", data_type |-> "int", is_nullable |-> "NO"] >>
  ELSE << [column_name |-> "c2", data_type |-> "text", is_nullable |-> "YES"] >>

\* texts a user can have typed into the textarea
Prompts == { << >>, <<" ">>, <<" ", "a", " ">> }

FetchErrorMsg == "Failed to fetch table schema"
GenerateErrorMsg == "Failed to generate dashboard. Please try again."

\* String.prototype.trim on a sequence of characters
RECURSIVE TrimLeft(_)
TrimLeft(s) ==
  IF s # << >> /\ Head(s) = " " THEN TrimLeft(Tail(s)) ELSE s

RECURSIVE TrimRight(_)
TrimRight(s) ==
  IF s # << >> /\ s[Len(s)] = " " THEN TrimRight(SubSeq(s, 1, Len(s) - 1)) ELSE s

Trim(s) == TrimRight(TrimLeft(s))

\* a field that the JSON response does not carry (data.dax === undefined)
Missing == <<"undefined">>

\* JavaScript truthiness of a string (or of a missing field)
Truthy(s) == s # Missing /\ s # EmptyStr

\* data.dax || ''
OrEmpty(s) == IF Truthy(s) THEN s ELSE EmptyStr

\* columns.map(col => ({ name: col.column_name, type: col.data_type }))
BodyColumns(cols) ==
  [i \in 1..Len(cols) |-> [name |-> cols[i].column_name, type |-> cols[i].data_type]]

\* <DashboardBuilder> is rendered iff showBuilder && selectedTable
Mounted == showBuilder /\ selectedTable # NoTable

NoResult == [status |-> "none", reason |-> << >>, table |-> NoTable]
NoDownload == [file |-> "none", table |-> NoTable, content |-> EmptyStr]
NoSchemaSt == "none"
NotExited == -1

\* the step is neither a handleSubmit call nor a download
NoSubmit == [outcome |-> "none", prior |-> "none", schemaSt |-> "none"]
NoEvent == lastSubmit' = NoSubmit /\ lastDownload' = NoDownload

(***************************************************************************)
(* Consistency Validator (spec.md 4.4), on tokenised text.                 *)
(***************************************************************************)
SqlKeywords == {"SELECT", "FROM", "WHERE"}
Punctuation == {",", "[", "]"}
Garbage == "?"
IsIdentifier(tok) == tok \notin SqlKeywords \cup Punctuation \cup {Garbage}

\* a text that cannot be tokenised
Tokenizable(text) == \A i \in 1..Len(text) : text[i] # Garbage

\* step 1, sql_text: tokens following SELECT/FROM/WHERE or a comma of the list
SqlIdentifiers(text) ==
  IF ~Tokenizable(text) THEN {}
  ELSE { text[i] : i \in { j \in 2..Len(text) :
                             /\ IsIdentifier(text[j])
                             /\ text[j-1] \in SqlKeywords \cup {","} } }

\* step 1, dax_text: tokens in a bracketed reference, table[column]
DaxIdentifiers(text) ==
  IF ~Tokenizable(text) THEN {}
  ELSE { text[i] : i \in { j \in 2..(Len(text) - 1) :
                             /\ IsIdentifier(text[j])
                             /\ text[j-1] = "["
                             /\ text[j+1] = "]" } }

ExtractIdentifiers(raw) == SqlIdentifiers(raw.sql) \cup DaxIdentifiers(raw.dax)

\* column names of a schema as sent in the request body
ColumnNames(schema) == { schema[i].name : i \in 1..Len(schema) }

\* the validator with a pair policy that also rejects a partial output
validateRejectsPartial(raw, schema) ==
  LET unknown == ExtractIdentifiers(raw) \ ColumnNames(schema) IN
  IF unknown # {}
  THEN [status |-> "rejected",
        reason |-> <<"UnknownColumn", CHOOSE x \in unknown : TRUE>>]
  ELSE IF raw.sql = EmptyStr \/ raw.dax = EmptyStr
  THEN [status |-> "rejected", reason |-> <<"EmptyGeneration">>]
  ELSE IF ~Tokenizable(raw.sql) \/ ~Tokenizable(raw.dax)
  THEN [status |-> "rejected", reason |-> <<"Unparseable">>]
  ELSE [status |-> "accepted", reason |-> << >>]

validate(raw, schema) ==
  LET unknown == ExtractIdentifiers(raw) \ ColumnNames(schema) IN
  IF unknown # {}
  THEN [status |-> "rejected",
        reason |-> <<"UnknownColumn", CHOOSE x \in unknown : TRUE>>]
  ELSE IF raw.sql = EmptyStr /\ raw.dax = EmptyStr
  THEN [status |-> "rejected", reason |-> <<"EmptyGeneration">>]
  ELSE IF ~Tokenizable(raw.sql) \/ ~Tokenizable(raw.dax)
  THEN [status |-> "rejected", reason |-> <<"Unparseable">>]
  ELSE [status |-> "accepted", reason |-> << >>]

\* response body of the service: {sql, dax, status, reason?} (spec.md 6)
ServiceResult(dax, sql, schema) ==
  validate([sql |-> OrEmpty(sql), dax |-> OrEmpty(dax)], schema)

\* generated texts the service can answer with; a field may be missing
DaxSamples == { Missing, EmptyStr, <<"[", "c1", "]">>, <<"[", "c2", "]">> }
SqlSamples == { Missing, EmptyStr, <<"SELECT", "c1">> }

(***************************************************************************)
(* Initial state: the page is shown, no table chosen, no builder open.     *)
(***************************************************************************)
InitUI ==
  /\ selectedTable = NoTable
  /\ showBuilder = FALSE
  /\ columns = << >>
  /\ loading = FALSE
  /\ generatedDAX = EmptyStr
  /\ generatedSQL = EmptyStr
  /\ error = Null
  /\ prompt = EmptyStr
  /\ fetches = EmptyBag
  /\ nextFetch = 0
  /\ nextReq = 0
  /\ reqs = EmptyBag
  /\ lastSettled = NoneSettled
  /\ schemaSt = NoSchemaSt
  /\ shown = NoResult
  /\ lastSubmit = NoSubmit
  /\ lastDownload = NoDownload

InitV ==
  /\ vRaw = [sql |-> EmptyStr, dax |-> EmptyStr]
  /\ vSchema = << >>
  /\ vResult = [status |-> "pending", reason |-> << >>]

\* the start script has not been run
InitS ==
  /\ listening = {}
  /\ lsofInstalled = TRUE
  /\ pc = "check3004"
  /\ out = << >>
  /\ exitStatus = NotExited
  /\ FASTAPI_PID = "unset"
  /\ PROSTGLES_PID = "unset"

Init == InitUI /\ InitV /\ InitS

(***************************************************************************)
(* DashboardBuilder lifecycle.  A pending promise belongs to the instance  *)
(* that started it (live) or to one that was unmounted since: React drops  *)
(* the state updates of an unmounted component.                            *)
(***************************************************************************)
Orphaned(x) == [x EXCEPT !.live = FALSE]

\* every pending promise of the bag now belongs to an unmounted instance
Orphan(B) ==
  LET S == BagToSet(B)
      T == { Orphaned(x) : x \in S }
      n(y) == IF y \in S THEN B[y] ELSE 0
  IN  [ y \in T |-> n(y) + n([y EXCEPT !.live = TRUE]) ]

\* fetchTableSchema without its setError(null): an earlier message stays up
StartFetchKeepsError(t) ==
  /\ nextFetch < MaxFetches
  /\ nextFetch' = nextFetch + 1
  /\ fetches' = fetches (+) SetToBag({[live |-> TRUE, table |-> t]})
  /\ loading' = TRUE
  /\ UNCHANGED error

\* fetchTableSchema up to its await: setLoading(true), setError(null), dbs.raw
StartFetch(t) ==
  /\ nextFetch < MaxFetches
  /\ nextFetch' = nextFetch + 1
  /\ fetches' = fetches (+) SetToBag({[live |-> TRUE, table |-> t]})
  /\ loading' = TRUE
  /\ error' = Null

\* a new DashboardBuilder (and PromptToDAX) instance: initial useState values,
\* then the [table] effect runs fetchTableSchema
Mount(t) ==
  /\ columns' = << >>
  /\ generatedDAX' = EmptyStr
  /\ generatedSQL' = EmptyStr
  /\ prompt' = EmptyStr
  /\ schemaSt' = NoSchemaSt
  /\ shown' = NoResult
  /\ StartFetch(t)
  /\ UNCHANGED reqs

\* the instance is discarded; its pending promises keep running
Unmount ==
  /\ columns' = << >>
  /\ loading' = FALSE
  /\ generatedDAX' = EmptyStr
  /\ generatedSQL' = EmptyStr
  /\ error' = Null
  /\ prompt' = EmptyStr
  /\ schemaSt' = NoSchemaSt
  /\ shown' = NoResult
  /\ fetches' = Orphan(fetches)
  /\ reqs' = Orphan(reqs)
  /\ UNCHANGED nextFetch

\* the table prop of a mounted builder changes: the [table] effect runs again
TableChanged(t) ==
  /\ StartFetch(t)
  /\ schemaSt' = NoSchemaSt
  /\ UNCHANGED <<columns, generatedDAX, generatedSQL, prompt, shown, reqs>>

(***************************************************************************)
(* AIAnalyticsDashboard.                                                   *)
(***************************************************************************)
\* <select onChange={(e) => setSelectedTable(e.target.value)}>
SelectTable(t) ==
  /\ t # selectedTable
  /\ selectedTable' = t
  /\ IF ~showBuilder
     THEN UNCHANGED <<columns, loading, generatedDAX, generatedSQL, error,
                      prompt, fetches, nextFetch, reqs, schemaSt, shown>>
     ELSE IF t = NoTable THEN Unmount
     ELSE IF selectedTable = NoTable THEN Mount(t)
     ELSE TableChanged(t)
  /\ NoEvent
  /\ UNCHANGED <<showBuilder, nextReq, lastSettled, vVars, sVars>>

\* "Create Dashboard" button: setShowBuilder(true)
OpenBuilder ==
  /\ selectedTable # NoTable
  /\ ~showBuilder
  /\ showBuilder' = TRUE
  /\ Mount(selectedTable)
  /\ NoEvent
  /\ UNCHANGED <<selectedTable, nextReq, lastSettled, vVars, sVars>>

\* onClose: setShowBuilder(false)
CloseBuilder ==
  /\ Mounted
  /\ showBuilder' = FALSE
  /\ Unmount
  /\ NoEvent
  /\ UNCHANGED <<selectedTable, nextReq, lastSettled, vVars, sVars>>

(***************************************************************************)
(* DashboardBuilder: schema fetch completion.                              *)
(***************************************************************************)
\* dbs.raw resolved: setColumns(result); finally setLoading(false)
FetchSchemaOK(f) ==
  /\ BagIn(f, fetches)
  /\ fetches' = fetches (-) SetToBag({f})
  /\ IF f.live
     THEN /\ columns' = Schema(f.table)
          /\ loading' = FALSE
          /\ schemaSt' = IF f.table = selectedTable THEN "ok" ELSE schemaSt
     ELSE UNCHANGED <<columns, loading, schemaSt>>
  /\ NoEvent
  /\ UNCHANGED <<selectedTable, showBuilder, generatedDAX, generatedSQL,
                 error, prompt, reqs, lastSettled, shown, counters, vVars, sVars>>

\* dbs.raw rejected: setError(...); finally setLoading(false)
FetchSchemaFail(f) ==
  /\ BagIn(f, fetches)
  /\ fetches' = fetches (-) SetToBag({f})
  /\ IF f.live
     THEN /\ error' = FetchErrorMsg
          /\ loading' = FALSE
          /\ schemaSt' = IF f.table = selectedTable THEN "failed" ELSE schemaSt
     ELSE UNCHANGED <<error, loading, schemaSt>>
  /\ NoEvent
  /\ UNCHANGED <<selectedTable, showBuilder, columns, generatedDAX,
                 generatedSQL, prompt, reqs, lastSettled, shown, counters, vVars, sVars>>

(***************************************************************************)
(* PromptToDAX.                                                            *)
(***************************************************************************)
\* <textarea onChange={(e) => setPrompt(e.target.value)} disabled={loading}>
SetPrompt(p) ==
  /\ Mounted
  /\ ~loading
  /\ p # prompt
  /\ prompt' = p
  /\ NoEvent
  /\ UNCHANGED <<selectedTable, showBuilder, columns, loading, generatedDAX,
                 generatedSQL, error, fetches, reqs, lastSettled, schemaSt, shown,
                 counters, vVars, sVars>>

\* the identity of a request for the cache of spec.md 3
Fingerprint(r) == <<r.table, r.columns, r.prompt>>

\* handleGenerateDashboard up to its await: setLoading(true), setError(null),
\* fetch(POST /api/generate-dashboard, {table, prompt, columns})
handleGenerateDashboard(p) ==
  LET body == [table |-> selectedTable, prompt |-> p,
               columns |-> BodyColumns(columns)]
  IN
  /\ nextReq < MaxRequests
  /\ nextReq' = nextReq + 1
  /\ loading' = TRUE
  /\ error' = Null
  /\ reqs' = reqs (+) SetToBag(
       {[live |-> TRUE, table |-> body.table, prompt |-> body.prompt,
         columns |-> body.columns, st |-> "inflight"]})
  /\ lastSubmit' = [outcome |-> "sent",
                    prior |-> IF lastSettled.fp = Fingerprint(body)
                              THEN lastSettled.outcome ELSE "none",
                    schemaSt |-> schemaSt]

\* handleSubmit without the trim: if (prompt && !loading) onGenerate(prompt)
handleSubmitUntrimmed ==
  /\ Mounted
  /\ IF Truthy(prompt) /\ ~loading
     THEN handleGenerateDashboard(prompt)
     ELSE /\ lastSubmit' = [NoSubmit EXCEPT !.outcome =
                              IF Truthy(prompt) THEN "busy" ELSE "blank"]
          /\ UNCHANGED <<loading, error, reqs, nextReq>>
  /\ lastDownload' = NoDownload
  /\ UNCHANGED <<selectedTable, showBuilder, columns, generatedDAX,
                 generatedSQL, prompt, fetches, nextFetch, schemaSt, shown,
                 lastSettled, vVars, sVars>>

\* handleSubmit: if (prompt.trim() && !loading) onGenerate(prompt.trim())
handleSubmit ==
  /\ Mounted
  /\ IF Truthy(Trim(prompt)) /\ ~loading
     THEN handleGenerateDashboard(Trim(prompt))
     ELSE /\ lastSubmit' = [NoSubmit EXCEPT !.outcome =
                              IF Truthy(Trim(prompt)) THEN "busy" ELSE "blank"]
          /\ UNCHANGED <<loading, error, reqs, nextReq>>
  /\ lastDownload' = NoDownload
  /\ UNCHANGED <<selectedTable, showBuilder, columns, generatedDAX,
                 generatedSQL, prompt, fetches, nextFetch, schemaSt, shown,
                 lastSettled, vVars, sVars>>

(***************************************************************************)
(* DashboardBuilder: completion of POST /api/generate-dashboard.           *)
(***************************************************************************)
InFlight(r) == BagIn(r, reqs) /\ r.st = "inflight"

\* the response that lines 81-82 apply, with the table of its request
Applied(r, dax, sql) ==
  LET res == ServiceResult(dax, sql, r.columns)
  IN  [status |-> res.status, reason |-> res.reason, table |-> r.table]

\* response.ok and response.json() resolved: setGeneratedDAX(data.dax || ''),
\* setGeneratedSQL(data.sql || ''); finally setLoading(false)
GenerateOK(r, dax, sql) ==
  /\ InFlight(r)
  /\ reqs' = reqs (-) SetToBag({r})
  /\ lastSettled' = [fp |-> Fingerprint(r), outcome |-> "ok"]
  /\ IF r.live
     THEN /\ generatedDAX' = OrEmpty(dax)
          /\ generatedSQL' = OrEmpty(sql)
          /\ loading' = FALSE
          /\ shown' = Applied(r, dax, sql)
     ELSE UNCHANGED <<generatedDAX, generatedSQL, loading, shown>>
  /\ NoEvent
  /\ UNCHANGED <<selectedTable, showBuilder, columns, error, prompt, fetches,
                 schemaSt, counters, vVars, sVars>>

\* the catch block without the finally: loading is never reset after a failure
GenerateFailKeepsLoading(r) ==
  /\ InFlight(r)
  /\ reqs' = reqs (-) SetToBag({r})
  /\ lastSettled' = [fp |-> Fingerprint(r), outcome |-> "failed"]
  /\ IF r.live
     THEN error' = GenerateErrorMsg
     ELSE UNCHANGED error
  /\ NoEvent
  /\ UNCHANGED <<selectedTable, showBuilder, columns, loading, generatedDAX,
                 generatedSQL, prompt, fetches, schemaSt, shown, counters,
                 vVars, sVars>>

\* fetch rejected, !response.ok, or response.json() rejected:
\* catch setError(...); finally setLoading(false)
GenerateFail(r) ==
  /\ InFlight(r)
  /\ reqs' = reqs (-) SetToBag({r})
  /\ lastSettled' = [fp |-> Fingerprint(r), outcome |-> "failed"]
  /\ IF r.live
     THEN /\ error' = GenerateErrorMsg
          /\ loading' = FALSE
     ELSE UNCHANGED <<error, loading>>
  /\ NoEvent
  /\ UNCHANGED <<selectedTable, showBuilder, columns, generatedDAX,
                 generatedSQL, prompt, fetches, schemaSt, shown, counters,
                 vVars, sVars>>

\* the provider stops answering this call; fetch() is given no signal and no
\* timer is armed, so nothing in the page ever settles the promise
ProviderHang(r) ==
  /\ InFlight(r)
  /\ reqs' = (reqs (-) SetToBag({r})) (+) SetToBag({[r EXCEPT !.st = "hung"]})
  /\ NoEvent
  /\ UNCHANGED <<selectedTable, showBuilder, columns, loading, generatedDAX,
                 generatedSQL, error, prompt, fetches, schemaSt, shown, lastSettled,
                 counters, vVars, sVars>>

(***************************************************************************)
(* PowerBIExport, rendered iff generatedDAX is truthy.                     *)
(***************************************************************************)
ExportOffered == Mounted /\ Truthy(generatedDAX)

Download(file, content) ==
  /\ ExportOffered
  /\ lastDownload' = [file |-> file, table |-> selectedTable, content |-> content]
  /\ lastSubmit' = NoSubmit
  /\ UNCHANGED <<selectedTable, showBuilder, columns, loading, generatedDAX,
                 generatedSQL, error, prompt, fetches, nextFetch, nextReq, reqs, lastSettled, schemaSt,
                 shown, vVars, sVars>>

\* a.download = `${table}_dashboard.pbids`
generatePBIDS == Download("dashboard.pbids", <<selectedTable>>)

\* a.download = `${table}_dashboard.dax`
downloadDAX == Download("dashboard.dax", generatedDAX)

\* a.download = `${table}_query.sql`
downloadSQL == Download("query.sql", generatedSQL)

(***************************************************************************)
(* Specification.                                                          *)
(***************************************************************************)
Next ==
  \/ \E t \in Tables \cup {NoTable} : SelectTable(t)
  \/ OpenBuilder
  \/ CloseBuilder
  \/ \E f \in BagToSet(fetches) : FetchSchemaOK(f)
  \/ \E f \in BagToSet(fetches) : FetchSchemaFail(f)
  \/ \E p \in Prompts : SetPrompt(p)
  \/ handleSubmit
  \/ \E r \in BagToSet(reqs), dax \in DaxSamples, sql \in SqlSamples :
       GenerateOK(r, dax, sql)
  \/ \E r \in BagToSet(reqs) : GenerateFail(r)
  \/ generatePBIDS
  \/ downloadDAX
  \/ downloadSQL

Spec == Init /\ [][Next]_vars

\* the same page, with a provider that may stop answering a call
NextHang ==
  \/ Next
  \/ \E r \in BagToSet(reqs) : ProviderHang(r)

(***************************************************************************)
(* The page with the fairness its environment provides: a schema query is  *)
(* always settled, and so is every POST call the provider has not stopped  *)
(* answering.  The user's own actions are under no obligation.             *)
(***************************************************************************)
FetchSettles ==
  \E f \in BagToSet(fetches) : FetchSchemaOK(f) \/ FetchSchemaFail(f)

CallSettles ==
  \E r \in BagToSet(reqs) :
    \/ GenerateFail(r)
    \/ \E dax \in DaxSamples, sql \in SqlSamples : GenerateOK(r, dax, sql)

LiveSpec ==
  Init /\ [][NextHang]_vars /\ WF_vars(FetchSettles) /\ WF_vars(CallSettles)

(***************************************************************************)
(* The validator alone, applied to every bounded generator output.         *)
(***************************************************************************)
SeqUpTo(S, n) == UNION { [1..k -> S] : k \in 0..n }

SqlTokens == {"SELECT", "c1", "c2", Garbage}
DaxTokens == {"[", "]", "c1", Garbage}

Schemas == { << >>, BodyColumns(Schema("A")), BodyColumns(Schema("B")) }

InitValidate ==
  /\ InitUI
  /\ InitS
  /\ vRaw \in [sql : SeqUpTo(SqlTokens, MaxSqlLen), dax : SeqUpTo(DaxTokens, MaxDaxLen)]
  /\ vSchema \in Schemas
  /\ vResult = [status |-> "pending", reason |-> << >>]

Validate ==
  /\ vResult.status = "pending"
  /\ vResult' = validate(vRaw, vSchema)
  /\ UNCHANGED <<vRaw, vSchema, uiVars, sVars>>

NextValidate == Validate

SpecValidate == InitValidate /\ [][NextValidate]_vars

(***************************************************************************)
(* start_ai_analytics.sh.  The script is run once; the listeners on the    *)
(* three ports and the presence of lsof are its environment.               *)
(***************************************************************************)
Ports == {3004, 8000, 5432}

PortInUseLine(port) ==
  CASE port = 3004 -> "Port 3004 is already in use"
    [] port = 8000 -> "Port 8000 is already in use"
    [] port = 5432 -> "Port 5432 is already in use"

PortAvailableLine(port) ==
  CASE port = 3004 -> "Port 3004 is available"
    [] port = 8000 -> "Port 8000 is available"
    [] port = 5432 -> "Port 5432 is available"

ProstglesInUseMsg == "Port 3004 (Prostgles) is already in use"
FastAPIInUseMsg == "Port 8000 (FastAPI) is already in use"
PostgresNotRunningMsg ==
  "Port 5432 (PostgreSQL) is not running. Please start PostgreSQL first."
AllPortsAvailableMsg == "All ports are available"

\* lsof -Pi :$1 -sTCP:LISTEN -t >/dev/null: status 0 iff lsof runs and finds
\* a listener (a missing lsof is "command not found", a non-zero status)
LsofFindsListener(port) == lsofInstalled /\ port \in listening

\* check_port: return 1 if the port is in use, 0 otherwise
check_port(port) == IF LsofFindsListener(port) THEN 1 ELSE 0

\* check_port $port || { echo "$msg"; exit 1; }
CheckOrExit(port, msg, next) ==
  IF check_port(port) = 0
  THEN /\ out' = Append(out, PortAvailableLine(port))
       /\ pc' = next
       /\ UNCHANGED exitStatus
  ELSE /\ out' = out \o <<PortInUseLine(port), msg>>
       /\ pc' = "exited"
       /\ exitStatus' = 1

Check3004 ==
  /\ pc = "check3004"
  /\ CheckOrExit(3004, ProstglesInUseMsg, "check8000")
  /\ UNCHANGED <<listening, lsofInstalled, FASTAPI_PID, PROSTGLES_PID,
                 uiVars, vVars>>

Check8000 ==
  /\ pc = "check8000"
  /\ CheckOrExit(8000, FastAPIInUseMsg, "check5432")
  /\ UNCHANGED <<listening, lsofInstalled, FASTAPI_PID, PROSTGLES_PID,
                 uiVars, vVars>>

Check5432 ==
  /\ pc = "check5432"
  /\ CheckOrExit(5432, PostgresNotRunningMsg, "passed")
  /\ UNCHANGED <<listening, lsofInstalled, FASTAPI_PID, PROSTGLES_PID,
                 uiVars, vVars>>

\* echo "All ports are available"; pip install -r requirements.txt (its
\* status is not tested)
InstallDeps ==
  /\ pc = "passed"
  /\ out' = Append(out, AllPortsAvailableMsg)
  /\ pc' = "backend"
  /\ UNCHANGED <<listening, lsofInstalled, exitStatus, FASTAPI_PID,
                 PROSTGLES_PID, uiVars, vVars>>

\* python api/main.py & ; FASTAPI_PID=$! ; sleep 3
StartBackend ==
  /\ pc = "backend"
  /\ FASTAPI_PID' = "started"
  /\ pc' = "frontend"
  /\ UNCHANGED <<listening, lsofInstalled, out, exitStatus, PROSTGLES_PID,
                 uiVars, vVars>>

\* ./start.sh & ; PROSTGLES_PID=$! ; trap cleanup SIGINT SIGTERM ; wait
StartFrontend ==
  /\ pc = "frontend"
  /\ PROSTGLES_PID' = "started"
  /\ out' = Append(out, "AI Analytics System is starting...")
  /\ pc' = "wait"
  /\ UNCHANGED <<listening, lsofInstalled, exitStatus, FASTAPI_PID,
                 uiVars, vVars>>

\* cleanup, the SIGINT/SIGTERM trap: kill both children, exit 0
cleanup ==
  /\ out' = out \o <<"Stopping services...", "Services stopped">>
  /\ FASTAPI_PID' = "killed"
  /\ PROSTGLES_PID' = "killed"
  /\ exitStatus' = 0
  /\ pc' = "exited"

\* SIGINT or SIGTERM reaches the script: the trap runs once it is installed
\* (the script is at wait); before that the shell's default action ends the
\* script with status 128 + signal number and kills nothing
Signal(signo) ==
  /\ pc # "exited"
  /\ IF pc = "wait"
     THEN cleanup
     ELSE /\ exitStatus' = 128 + signo
          /\ pc' = "exited"
          /\ UNCHANGED <<out, FASTAPI_PID, PROSTGLES_PID>>
  /\ UNCHANGED <<listening, lsofInstalled, uiVars, vVars>>

\* wait returns: both background jobs have ended by themselves
WaitReturns ==
  /\ pc = "wait"
  /\ pc' = "exited"
  /\ exitStatus' = 0
  /\ UNCHANGED <<listening, lsofInstalled, out, FASTAPI_PID, PROSTGLES_PID,
                 uiVars, vVars>>

InitStart ==
  /\ InitUI
  /\ InitV
  /\ listening \in SUBSET Ports
  /\ lsofInstalled \in BOOLEAN
  /\ pc = "check3004"
  /\ out = << >>
  /\ exitStatus = NotExited
  /\ FASTAPI_PID = "unset"
  /\ PROSTGLES_PID = "unset"

NextStart ==
  \/ Check3004
  \/ Check8000
  \/ Check5432
  \/ InstallDeps
  \/ StartBackend
  \/ StartFrontend
  \/ \E signo \in {2, 15} : Signal(signo)
  \/ WaitReturns

SpecStart == InitStart /\ [][NextStart]_vars

(***************************************************************************)
(* Properties.                                                             *)
(***************************************************************************)
\* the calls in flight that carry fingerprint fp, counted with multiplicity
CallsInFlight(fp) ==
  BagCardinality([ x \in { y \in BagToSet(reqs) : Fingerprint(y) = fp } |-> reqs[x] ])

\* the step just taken was a handleSubmit call that issued a POST
Sent == lastSubmit.outcome = "sent"

\* C1: an empty or whitespace-only prompt never reaches the generator: every
\* POST in flight carries a non-empty, trimmed prompt, and no step taken
\* while the trimmed prompt text is empty issues a POST.
C1_BlankPromptNeverSent ==
  /\ [](\A r \in BagToSet(reqs) : Truthy(r.prompt) /\ Trim(r.prompt) = r.prompt)
  /\ [][~Truthy(Trim(prompt)) => nextReq' = nextReq]_vars

\* C1 witness: handleSubmit was called on a whitespace-only prompt
C1_Witness ==
  /\ lastSubmit.outcome = "blank"
  /\ prompt # EmptyStr
  /\ ~loading

\* C2: requests with the same fingerprint that are pending at the same time
\* are served by one generator invocation.
C2_OneCallPerFingerprint ==
  \A r \in BagToSet(reqs) : CallsInFlight(Fingerprint(r)) = 1

\* C3: a request identical to the one just answered is served from the stored
\* result: no generator call is issued for it.
C3_RepeatServedFromCache ==
  Sent => lastSubmit.prior # "ok"

\* C4: export is offered or executed only for a result whose status is
\* accepted.
C4_ExportOnlyAccepted ==
  (ExportOffered \/ lastDownload # NoDownload) => shown.status = "accepted"

\* C5: a generated pair that references a column absent from the schema of
\* its request is rejected, so no such pair is ever displayed in the code
\* panels.
C5_NoUnknownColumnDisplayed ==
  (Mounted /\ (Truthy(generatedDAX) \/ Truthy(generatedSQL)))
     => ~(shown.reason # << >> /\ Head(shown.reason) = "UnknownColumn")

\* C6 as stated: every output whose extracted identifiers are all column
\* names of the schema is accepted.
C6_GroundedOutputAccepted ==
  (vResult.status # "pending" /\ ExtractIdentifiers(vRaw) \subseteq ColumnNames(vSchema))
     => vResult.status = "accepted"

\* C6 amended: every output whose extracted identifiers are all column names
\* of the schema, whose two texts can be tokenised and are not both empty,
\* is accepted.
C6_GroundedNonEmptyParseableAccepted ==
  ( /\ vResult.status # "pending"
    /\ ExtractIdentifiers(vRaw) \subseteq ColumnNames(vSchema)
    /\ Tokenizable(vRaw.sql) /\ Tokenizable(vRaw.dax)
    /\ ~(vRaw.sql = EmptyStr /\ vRaw.dax = EmptyStr) )
     => vResult.status = "accepted"

\* C6 witness: a partial output (SQL only) naming a schema column was accepted
C6_Witness ==
  /\ vResult.status = "accepted"
  /\ vRaw.dax = EmptyStr
  /\ ExtractIdentifiers(vRaw) # {}

\* C7: when a response with both texts empty is applied, the user is shown
\* a rejection message (one that is not a call failure).
C7_EmptyGenerationReported ==
  [][ (\E r \in BagToSet(reqs), dax \in DaxSamples, sql \in SqlSamples :
         /\ r.live /\ ~Truthy(dax) /\ ~Truthy(sql)
         /\ GenerateOK(r, dax, sql))
      => error' \notin {Null, FetchErrorMsg, GenerateErrorMsg} ]_vars

\* C8: a failed generator call shows the error, re-enables submission and
\* stores nothing (the displayed result is left as it was); and a submission
\* of a non-blank prompt while not loading always issues a POST, also when
\* the identical request has just failed.
C8_FailureIsTransient ==
  /\ [][ (\E r \in BagToSet(reqs) : r.live /\ GenerateFail(r))
         => /\ error' = GenerateErrorMsg
            /\ loading' = FALSE
            /\ UNCHANGED <<generatedDAX, generatedSQL, shown, prompt>> ]_vars
  /\ [][ (lastSubmit'.outcome # "none" /\ Truthy(Trim(prompt)) /\ ~loading)
         => (lastSubmit'.outcome = "sent" /\ nextReq' = nextReq + 1) ]_vars

\* C8 witness: the identical request was submitted again right after its
\* failure and a POST was issued for it
C8_Witness ==
  /\ Sent
  /\ lastSubmit.prior = "failed"
  /\ error = Null

\* C9: no generator request is issued for a table whose schema query failed.
C9_NoCallAfterSchemaFailure ==
  Sent => lastSubmit.schemaSt # "failed"

\* C10: every generator call ends (a timeout bounds it), and loading always
\* returns to false.
C10_EveryCallEnds ==
  /\ (reqs # EmptyBag) ~> (reqs = EmptyBag)
  /\ loading ~> ~loading

\* C11: a response that carries only one of the two texts, and that the
\* service accepted, is applied without failing the call (the error message
\* is not touched), the text it carries is shown, and the export panel is
\* offered for it.
C11_PartialResultUsable ==
  [][ (\E r \in BagToSet(reqs), dax \in DaxSamples, sql \in SqlSamples :
         /\ r.live
         /\ Truthy(dax) # Truthy(sql)
         /\ ServiceResult(dax, sql, r.columns).status = "accepted"
         /\ GenerateOK(r, dax, sql))
      => /\ error' = error
         /\ Truthy(generatedDAX') \/ Truthy(generatedSQL')
         /\ ExportOffered' ]_vars

\* a call of the open builder is waiting on the fingerprint of call r
JoinedWaiter(r) ==
  \E w \in BagToSet(reqs) : w.live /\ Fingerprint(w) = Fingerprint(r)

\* C12: a call whose builder was closed stays in flight until the provider
\* settles it; when it is settled nothing of it reaches the page; and when it
\* is answered while a call of the open builder waits on the same
\* fingerprint, that waiter is served with the answer (no call with that
\* fingerprint is left in flight).
C12_AbandonedCallServesWaiters ==
  /\ [][ showBuilder /\ ~showBuilder'
         => BagCardinality(reqs') = BagCardinality(reqs) ]_vars
  /\ [][ (\E r \in BagToSet(reqs) : ~r.live /\ GenerateFail(r))
         => UNCHANGED <<generatedDAX, generatedSQL, error, loading, shown>> ]_vars
  /\ [][ \A r \in BagToSet(reqs), dax \in DaxSamples, sql \in SqlSamples :
           (~r.live /\ GenerateOK(r, dax, sql))
           => IF JoinedWaiter(r)
              THEN /\ CallsInFlight(Fingerprint(r))' = 0
                   /\ generatedDAX' = OrEmpty(dax)
                   /\ generatedSQL' = OrEmpty(sql)
              ELSE UNCHANGED <<generatedDAX, generatedSQL, error, loading,
                               shown>> ]_vars

\* the POST calls in flight that the mounted builder issued
LiveCalls ==
  BagCardinality([ x \in { y \in BagToSet(reqs) : y.live } |-> reqs[x] ])

\* C13: the mounted builder has at most one POST in flight, and loading is
\* true whenever it has one.
C13_AtMostOneCallInFlight ==
  /\ LiveCalls <= 1
  /\ LiveCalls > 0 => loading

\* C14: the columns of every POST body are the schema of the table that the
\* body names.
C14_BodyColumnsMatchTable ==
  \A r \in BagToSet(reqs) : r.columns = BodyColumns(Schema(r.table))

\* C15: whenever the export panel is offered, the code it holds answers a
\* request issued for the table now shown, and every file handed to the
\* browser under a table's name holds code generated for that table.
C15_ExportedCodeIsForShownTable ==
  /\ ExportOffered => shown.table = selectedTable
  /\ lastDownload # NoDownload => shown.table = lastDownload.table

\* C16: the failure path of a generation of the mounted builder sets the
\* error message and loading = false and writes neither generatedDAX,
\* generatedSQL nor columns; and every step of a mounted builder that starts
\* a schema query or a POST leaves the error message cleared.
C16_FailureFrame ==
  /\ [][ (\E r \in BagToSet(reqs) : r.live /\ GenerateFail(r))
         => /\ error' = GenerateErrorMsg
            /\ loading' = FALSE
            /\ UNCHANGED <<generatedDAX, generatedSQL, columns>> ]_vars
  /\ [][ (nextFetch' # nextFetch \/ nextReq' # nextReq)
         => (error' = Null /\ loading') ]_vars

\* C16 witness: a generation failed after an earlier one had succeeded; the
\* message is up, the form is enabled again and the earlier code and the
\* columns are still there
C16_Witness ==
  /\ lastSettled.outcome = "failed"
  /\ error = GenerateErrorMsg
  /\ ~loading
  /\ Truthy(generatedDAX)
  /\ columns # << >>

\* a line the script has echoed
Echoed(line) == \E i \in 1..Len(out) : out[i] = line

\* the script has launched one of the two services
Launched == FASTAPI_PID # "unset" \/ PROSTGLES_PID # "unset"

PostgresRunning == 5432 \in listening

\* C17: the script launches the services only when ports 3004 and 8000 are
\* free and PostgreSQL listens on 5432; when PostgreSQL does not listen the
\* script does not pass its checks, and it exits with status 1 on the
\* "start PostgreSQL first" message only then; when PostgreSQL listens and
\* the other two ports are free it does not exit with status 1.
C17_LaunchOnlyWithPostgres ==
  /\ Launched => (3004 \notin listening /\ 8000 \notin listening /\ PostgresRunning)
  /\ ~PostgresRunning => ~Echoed(AllPortsAvailableMsg)
  /\ Echoed(PostgresNotRunningMsg) => (exitStatus = 1 /\ ~PostgresRunning)
  /\ (PostgresRunning /\ 3004 \notin listening /\ 8000 \notin listening)
       => exitStatus # 1
====
